---- MODULE Spec2Model ----
(***************************************************************************)
(* A model of prettier-plugin-sort-imports: the preprocess step that       *)
(* parses the leading import/export block of a file, optionally removes    *)
(* unused imports, sorts, merges and formats the block and splices it back *)
(* into the text.                                                          *)
(*                                                                         *)
(* A text is a sequence of tokens: a statement, a comment, a line break or *)
(* a piece of other code.  Offsets are token offsets: token i occupies     *)
(* [i-1, i).  A statement token holds the statement as it is written.      *)
(***************************************************************************)
EXTENDS Integers, Sequences, FiniteSets, TLC

VARIABLES
    text,     \* the text handed to preprocessImports
    config,   \* the plugin configuration of this transform
    pc,       \* "ready": a text waits; "done": the call returned
    calls,    \* number of preprocessImports calls made so far
    call,     \* the last call: its locals (imports, processedImports,
              \* sortedImports, mergedImports, sortedGroups,
              \* formattedImports), whether it ended in its catch block
              \* (threw) and the text it returned (result)
    prevOut,  \* the text returned by the call before the last
    build,        \* which of the two texts of the module src/index.ts
                  \* holds is loaded: "first" or "second"
    userConfig,   \* first text: the module-level userConfig
    configCache,  \* first text: the module-level configCache
    files,        \* the configuration files on disk
    loads,        \* how many times each configuration file was required
    plugins,      \* the config each plugin was created with; plugins[1]
                  \* is the default export
    transform,    \* the last transform: the plugin, the host options,
                  \* what loadConfigFromPath did in it (the path it was
                  \* called with, a cache hit, the config returned) and
                  \* the file the options name as it was on disk
    otherPlugins, \* config.otherPlugins of the plugin whose combined
                  \* preprocess is called
    chain         \* the last combinedPreprocess call: its parser name, the
                  \* preprocess functions called in order (log), the steps
                  \* that threw and the text it returned

pluginVars ==
    <<build, userConfig, configCache, files, loads, plugins, transform,
      otherPlugins, chain>>

vars == <<text, config, pc, calls, call, prevOut, pluginVars>>

-----------------------------------------------------------------------------
(* Bounds of the model *)

MaxStmts == 3
MaxCalls == 2

-----------------------------------------------------------------------------
(* Sequence helpers *)

Range(s) == {s[i] : i \in 1..Len(s)}

Slice(s, a, b) == SubSeq(s, a + 1, b)

RECURSIVE Flatten(_)
Flatten(ss) == IF ss = <<>> THEN <<>> ELSE Head(ss) \o Flatten(Tail(ss))

RECURSIVE Join(_, _)
Join(ss, sep) ==
    IF ss = <<>> THEN <<>>
    ELSE IF Len(ss) = 1 THEN Head(ss)
    ELSE Head(ss) \o sep \o Join(Tail(ss), sep)

Min(a, b) == IF a < b THEN a ELSE b
Max(a, b) == IF a > b THEN a ELSE b

\* String.prototype.localeCompare on the strings of the model: their
\* position in collation order.
Collation ==
    <<"./a", "./z", "@/c", "a", "b", "default", "external", "internal", "N",
      "normalize.css", "R", "react", "relative", "T", "vue">>

CollationIndex(s) == CHOOSE i \in 1..Len(Collation) : Collation[i] = s

localeCompare(a, b) == CollationIndex(a) - CollationIndex(b)

-----------------------------------------------------------------------------
(* Tokens of a text *)

NL == [k |-> "nl"]
Cmt(c) == [k |-> "cmt", c |-> c]
\* Other code: the identifiers it references and whether traversing it throws.
Code(uses, fault) == [k |-> "code", uses |-> uses, fault |-> fault]
\* A JSX element as other code: <A />, <A.B />, <A.B.C />; tag holds the
\* names of the JSXIdentifier nodes of its opening element from left to right
JsxElement(tag) ==
    [k |-> "code", uses |-> {}, fault |-> "none", tag |-> tag]
Stmt(s) == [k |-> "stmt", s |-> s]

\* A written statement: keyword, whole-clause `type`, the form (bare:
\* `import "p"`; star: `export * from "p"`; clause: with specifiers), the
\* default / namespace parts before the braces, whether braces are written,
\* the named specifiers between them, the path, and the layout (single:
\* on one line; multi: one named specifier per line with its comments).
Head_(h, local) == [h |-> h, local |-> local, lc |-> <<>>, tc |-> <<>>]
Named(tp, name, alias) ==
    [tp |-> tp, name |-> name, alias |-> alias, lc |-> <<>>, tc |-> <<>>]
Src(kw, typeKw, form, heads, braces, named, path) ==
    [kw |-> kw, typeKw |-> typeKw, form |-> form, heads |-> heads,
     braces |-> braces, named |-> named, path |-> path, layout |-> "single"]

\* Statements @babel/parser cannot recover from: `import default from`,
\* `export X from` (no exportDefaultFrom plugin), a clause with nothing in it.
Unparseable(s) ==
    /\ s.form = "clause"
    /\ \/ s.kw = "export" /\ s.heads # <<>>
       \/ \E i \in 1..Len(s.heads) : s.heads[i].local = "default"
       \/ s.heads = <<>> /\ ~s.braces

-----------------------------------------------------------------------------
(* @babel/parser as parseImports uses it: the program body, line numbers   *)
(* and the comments attached to each node.                                 *)

IsNode(t) == t.k \in {"stmt", "code"}

RECURSIVE Ascending(_)
Ascending(S) ==
    IF S = {} THEN <<>>
    ELSE LET m == CHOOSE x \in S : \A y \in S : x <= y
         IN <<m>> \o Ascending(S \ {m})

\* loc.start.line of token i (every token is written on one line)
LineOf(txt, i) == 1 + Cardinality({j \in 1..(i - 1) : txt[j].k = "nl"})

PrevNode(txt, i) ==
    LET before == {j \in 1..(i - 1) : IsNode(txt[j])}
    IN IF before = {} THEN 0 ELSE CHOOSE j \in before : \A l \in before : l <= j

NextNode(txt, i) ==
    LET after == {j \in (i + 1)..Len(txt) : IsNode(txt[j])}
    IN IF after = {} THEN Len(txt) + 1
       ELSE CHOOSE j \in after : \A l \in after : j <= l

\* node.leadingComments / node.trailingComments (attachComment: true): the
\* comments between a node and its neighbours belong to both of them.
BabelLeading(txt, i) ==
    {c \in (PrevNode(txt, i) + 1)..(i - 1) : txt[c].k = "cmt"}

BabelTrailing(txt, i) ==
    {c \in (i + 1)..(NextNode(txt, i) - 1) : txt[c].k = "cmt"}

\* parse() throws: a syntax error that error recovery cannot pass.
BabelThrows(txt) ==
    \E i \in 1..Len(txt) :
        \/ txt[i].k = "stmt" /\ Unparseable(txt[i].s)
        \/ txt[i].k = "code" /\ txt[i].fault = "syntax"

-----------------------------------------------------------------------------
(* parser: parseImports *)

Content(name, alias, type, lc, tc) ==
    [name |-> name, alias |-> alias, type |-> type,
     leadingComments |-> lc, trailingComments |-> tc]

\* alias "" stands for an undefined alias, <<>> for an undefined comment list
parseImportSpecifiers(s, isTypeOnlyImport) ==
    [i \in 1..Len(s.heads) |->
        Content(IF s.heads[i].h = "default" THEN "default" ELSE "*",
                s.heads[i].local,
                IF isTypeOnlyImport THEN "type" ELSE "variable",
                s.heads[i].lc, s.heads[i].tc)]
    \o
    [i \in 1..Len(s.named) |->
        LET importedName == s.named[i].name
            localName == IF s.named[i].alias = "" THEN s.named[i].name
                         ELSE s.named[i].alias
        IN Content(importedName,
                   IF importedName # localName THEN localName ELSE "",
                   IF isTypeOnlyImport \/ s.named[i].tp THEN "type"
                   ELSE "variable",
                   s.named[i].lc, s.named[i].tc)]

parseExportSpecifiers(s, isTypeOnlyExport) ==
    [i \in 1..Len(s.named) |->
        LET localName == s.named[i].name
            exportedName == IF s.named[i].alias = "" THEN s.named[i].name
                            ELSE s.named[i].alias
        IN Content(localName,
                   IF localName # exportedName THEN exportedName ELSE "",
                   IF isTypeOnlyExport \/ s.named[i].tp THEN "type"
                   ELSE "variable",
                   s.named[i].lc, s.named[i].tc)]

Statement(path, isExport, isSideEffect, contents, lc, tc, start, end) ==
    [path |-> path, isExport |-> isExport, isSideEffect |-> isSideEffect,
     importContents |-> contents, leadingComments |-> lc,
     trailingComments |-> tc, removedTrailingComments |-> <<>>,
     start |-> start, end |-> end]

\* One node of the block; usedComments goes in and comes out.
parseImportNode(txt, i, usedComments, isFirstImport) ==
    LET s == txt[i].s
        nodeStartLine == LineOf(txt, i)
        leadNew == {c \in BabelLeading(txt, i) : c \notin usedComments}
        header == {c \in leadNew :
                     isFirstImport /\ nodeStartLine - LineOf(txt, c) - 1 >= 1}
        owned == Ascending(leadNew \ header)
        leadingComments == [n \in 1..Len(owned) |-> txt[owned[n]].c]
        start == IF owned = <<>> THEN i - 1 ELSE Min(i - 1, owned[1] - 1)
        used1 == usedComments \cup leadNew
        sameLine == {c \in BabelTrailing(txt, i) :
                       c \notin used1 /\ LineOf(txt, c) = LineOf(txt, i)}
        trail == Ascending(sameLine)
        trailingComments == [n \in 1..Len(trail) |-> txt[trail[n]].c]
        end == IF trail = <<>> THEN i ELSE Max(i, trail[Len(trail)])
        contents ==
            IF s.kw = "import" THEN parseImportSpecifiers(s, s.typeKw)
            ELSE IF s.form = "star" THEN <<>>
            ELSE parseExportSpecifiers(s, s.typeKw)
        isSideEffect ==
            IF s.kw = "import" THEN contents = <<>> ELSE s.form = "star"
    IN [statement |-> Statement(s.path, s.kw # "import", isSideEffect,
                                contents, leadingComments, trailingComments,
                                start, end),
        used |-> used1 \cup sameLine]

\* The scan without its break: every import / export-from / export-all node
LeadingRunEveryImport(txt) ==
    Ascending({i \in 1..Len(txt) : txt[i].k = "stmt"})

\* The maximal leading run of import / export-from / export-all nodes.
LeadingRun(txt) ==
    Ascending({i \in 1..Len(txt) :
                 /\ txt[i].k = "stmt"
                 /\ \A j \in 1..(i - 1) : txt[j].k # "code"})

RECURSIVE parseNodes(_, _, _, _)
parseNodes(txt, nodes, n, usedComments) ==
    IF n > Len(nodes) THEN <<>>
    ELSE LET r == parseImportNode(txt, nodes[n], usedComments, n = 1)
         IN <<r.statement>> \o parseNodes(txt, nodes, n + 1, r.used)

parseImports(txt) == parseNodes(txt, LeadingRun(txt), 1, {})

-----------------------------------------------------------------------------
(* analyzer: usage analysis and the removal of unused imports *)

\* The JSXIdentifier visitor over the names of one tag: a name is added when
\* its parent is the opening (or closing) element itself, which it is only
\* in a tag of a single name; in <A.B /> the parent of A and of B is a
\* JSXMemberExpression.
JSXIdentifier(tag) ==
    {tag[n] : n \in {m \in 1..Len(tag) : Len(tag) = 1}}

\* The identifiers one token of the remaining code references.  In a later
\* import the imported name, in a later export-from the local and the
\* exported name are identifiers that bind nothing.
UsesOf(t) ==
    IF t.k = "code"
    THEN t.uses
         \cup (IF "tag" \in DOMAIN t THEN JSXIdentifier(t.tag) ELSE {})
    ELSE IF t.k = "stmt" THEN
        {t.s.named[n].name : n \in 1..Len(t.s.named)}
        \cup (IF t.s.kw = "export"
              THEN {t.s.named[n].alias : n \in 1..Len(t.s.named)} \ {""}
              ELSE {})
    ELSE {}

\* fault "scope": crawling the program scope throws before any visitor ran;
\* fault "visit": the traversal throws when it reaches this code.
AnalysisThrows(code) ==
    \E i \in 1..Len(code) :
        code[i].k = "code" /\ code[i].fault \in {"syntax", "scope", "visit"}

analyzeUsedIdentifiers(code) ==
    LET faulty == {i \in 1..Len(code) :
                     code[i].k = "code" /\ code[i].fault # "none"}
        early == \E i \in faulty : code[i].fault \in {"syntax", "scope"}
        stop == IF faulty = {} THEN Len(code) + 1
                ELSE CHOOSE i \in faulty : \A j \in faulty : i <= j
    IN IF early THEN {}
       ELSE UNION {UsesOf(code[i]) : i \in 1..(stop - 1)}

\* The early return for side-effect statements only
filterUnusedImportsOfExports(importStatement, usedIdentifiers) ==
    IF importStatement.isSideEffect
    THEN importStatement
    ELSE LET Kept(content) ==
                 IF content.name = "default" \/ content.name = "*"
                 THEN content.alias # "" /\ content.alias \in usedIdentifiers
                 ELSE (IF content.alias # "" THEN content.alias
                       ELSE content.name) \in usedIdentifiers
             usedContents == SelectSeq(importStatement.importContents, Kept)
         IN [importStatement EXCEPT !.importContents = usedContents,
                                    !.isSideEffect = (usedContents = <<>>)]

\* A filter that looks every specifier up by its imported name
filterUnusedImportsByName(importStatement, usedIdentifiers) ==
    IF importStatement.isSideEffect \/ importStatement.isExport
    THEN importStatement
    ELSE LET Kept(content) == content.name \in usedIdentifiers
             usedContents == SelectSeq(importStatement.importContents, Kept)
         IN [importStatement EXCEPT !.importContents = usedContents,
                                    !.isSideEffect = (usedContents = <<>>)]

filterUnusedImports(importStatement, usedIdentifiers) ==
    IF importStatement.isSideEffect \/ importStatement.isExport
    THEN importStatement
    ELSE LET Kept(content) ==
                 IF content.name = "default" \/ content.name = "*"
                 THEN content.alias # "" /\ content.alias \in usedIdentifiers
                 ELSE (IF content.alias # "" THEN content.alias
                       ELSE content.name) \in usedIdentifiers
             usedContents == SelectSeq(importStatement.importContents, Kept)
         IN [importStatement EXCEPT !.importContents = usedContents,
                                    !.isSideEffect = (usedContents = <<>>)]

RECURSIVE filterStatements(_, _)
filterStatements(importStatements, usedIdentifiers) ==
    IF importStatements = <<>> THEN <<>>
    ELSE LET statement == Head(importStatements)
             filteredStatement == filterUnusedImports(statement, usedIdentifiers)
             rest == filterStatements(Tail(importStatements), usedIdentifiers)
         IN IF /\ ~statement.isSideEffect
               /\ filteredStatement.isSideEffect
               /\ filteredStatement.importContents = <<>>
            THEN rest
            ELSE <<filteredStatement>> \o rest

removeUnusedImportsFromStatements(importStatements, code) ==
    filterStatements(importStatements, analyzeUsedIdentifiers(code))

-----------------------------------------------------------------------------
(* sorter: classification and the comparators *)

\* String.prototype.startsWith on the paths of the model
startsWith(path, prefix) ==
    prefix \in
        CASE path = "./a" -> {".", "./"}
          [] path = "./z" -> {".", "./"}
          [] path = "@/c" -> {"@", "@/"}
          [] path = "vue" -> {"v", "vue"}
          [] OTHER -> {}

defaultGetGroup == "default"

\* The classify function of the test configuration
customGetGroup(importStatement) ==
    IF startsWith(importStatement.path, "vue") THEN "vue"
    ELSE IF startsWith(importStatement.path, "@/") THEN "internal"
    ELSE IF startsWith(importStatement.path, ".") THEN "relative"
    ELSE "external"

\* A default classify function that buckets by the shape of the path
getGroupByPathShape(cfg, importStatement) ==
    IF cfg.getGroup # "undefined" THEN customGetGroup(importStatement)
    ELSE IF startsWith(importStatement.path, "./") THEN "relative"
    ELSE IF startsWith(importStatement.path, "@/") THEN "alias"
    ELSE "module"

getGroup(cfg, importStatement) ==
    IF cfg.getGroup = "undefined" THEN defaultGetGroup
    ELSE customGetGroup(importStatement)

getImportType(path) ==
    IF startsWith(path, "./") \/ startsWith(path, "../") THEN "relative"
    ELSE IF startsWith(path, "@/") \/ startsWith(path, "~/")
            \/ startsWith(path, "#/") THEN "alias"
    ELSE IF startsWith(path, "/") THEN "alias"
    ELSE "module"

getImportTypePriority(type) ==
    CASE type = "module" -> 0
      [] type = "alias" -> 1
      [] type = "relative" -> 2

defaultSortGroup(a, b) == localeCompare(a.name, b.name)

\* The group comparator of the test configuration
customSortGroup(a, b) ==
    LET order == <<"vue", "external", "internal", "relative">>
        indexOf(n) == IF \E i \in 1..Len(order) : order[i] = n
                      THEN (CHOOSE i \in 1..Len(order) : order[i] = n) - 1
                      ELSE -1
    IN indexOf(a.name) - indexOf(b.name)

\* The comparator without the priority of the import type
defaultSortImportStatementByPath(a, b) == localeCompare(a.path, b.path)

defaultSortImportStatement(a, b) ==
    LET aPriority == getImportTypePriority(getImportType(a.path))
        bPriority == getImportTypePriority(getImportType(b.path))
    IN IF aPriority # bPriority THEN aPriority - bPriority
       ELSE localeCompare(a.path, b.path)

\* A caller's statement comparator: descending path
customSortImportStatement(a, b) == localeCompare(b.path, a.path)

defaultSortImportContent(a, b) ==
    IF a.type = "type" /\ b.type # "type" THEN -1
    ELSE IF a.type # "type" /\ b.type = "type" THEN 1
    ELSE LET aName == IF a.alias # "" THEN a.alias ELSE a.name
             bName == IF b.alias # "" THEN b.alias ELSE b.name
         IN localeCompare(aName, bName)

\* A caller's content comparator: descending final name
customSortImportContent(a, b) ==
    LET aName == IF a.alias # "" THEN a.alias ELSE a.name
        bName == IF b.alias # "" THEN b.alias ELSE b.name
    IN localeCompare(bName, aName)

\* mergeConfig: the comparator a configuration field resolves to
Compare(field, cfg, a, b) ==
    CASE field = "sortGroup" ->
            IF cfg.sortGroup = "undefined" THEN defaultSortGroup(a, b)
            ELSE customSortGroup(a, b)
      [] field = "sortImportStatement" ->
            IF cfg.sortImportStatement = "undefined"
            THEN defaultSortImportStatement(a, b)
            ELSE customSortImportStatement(a, b)
      [] field = "sortImportContent" ->
            IF cfg.sortImportContent = "undefined"
            THEN defaultSortImportContent(a, b)
            ELSE customSortImportContent(a, b)

\* Array.prototype.sort with a comparator: a stable sort
RECURSIVE InsertStable(_, _, _, _)
InsertStable(x, s, field, cfg) ==
    IF s = <<>> THEN <<x>>
    ELSE IF Compare(field, cfg, s[Len(s)], x) <= 0 THEN Append(s, x)
    ELSE Append(InsertStable(x, SubSeq(s, 1, Len(s) - 1), field, cfg),
                s[Len(s)])

RECURSIVE SortFrom(_, _, _, _, _)
SortFrom(s, i, acc, field, cfg) ==
    IF i > Len(s) THEN acc
    ELSE SortFrom(s, i + 1, InsertStable(s[i], acc, field, cfg), field, cfg)

ArraySort(s, field, cfg) == SortFrom(s, 1, <<>>, field, cfg)

-----------------------------------------------------------------------------
(* sorter: groupImports, sortGroups, sortImportStatements,                 *)
(* sortImportContents, sortImports                                         *)

\* The keys of groupMap in insertion order
RECURSIVE groupNames(_, _, _)
groupNames(imports, cfg, seen) ==
    IF imports = <<>> THEN seen
    ELSE LET groupName == getGroup(cfg, Head(imports))
         IN groupNames(Tail(imports), cfg,
                       IF groupName \in Range(seen) THEN seen
                       ELSE Append(seen, groupName))

groupImports(imports, cfg) ==
    LET names == groupNames(imports, cfg, <<>>)
    IN [n \in 1..Len(names) |->
          LET InGroup(st) == getGroup(cfg, st) = names[n]
              statements == SelectSeq(imports, InGroup)
          IN [name |-> names[n],
              isSideEffect |->
                  \A i \in 1..Len(statements) : statements[i].isSideEffect,
              importStatements |-> statements]]

sortGroups(groups, cfg) == ArraySort(groups, "sortGroup", cfg)

sortImportStatements(statements, cfg) ==
    ArraySort(statements, "sortImportStatement", cfg)

\* The whole list under the comparator, nothing pinned
sortImportContentsUnpinned(contents, cfg) ==
    ArraySort(contents, "sortImportContent", cfg)

sortImportContents(contents, cfg) ==
    IF cfg.sortImportContent # "undefined"
    THEN ArraySort(contents, "sortImportContent", cfg)
    ELSE LET IsDefault(c) == c.name = "default"
             IsNamespace(c) == c.name = "*"
             IsNamed(c) == c.name # "default" /\ c.name # "*"
         IN SelectSeq(contents, IsDefault)
            \o SelectSeq(contents, IsNamespace)
            \o ArraySort(SelectSeq(contents, IsNamed), "sortImportContent", cfg)

\* Group, order the groups, order each group's statements and each
\* statement's contents, and flatten.
sortStatementList(imports, cfg) ==
    LET sortedGroups == sortGroups(groupImports(imports, cfg), cfg)
        SortedOf(group) ==
            LET sortedStatements ==
                    sortImportStatements(group.importStatements, cfg)
            IN [i \in 1..Len(sortedStatements) |->
                  [sortedStatements[i] EXCEPT !.importContents =
                      sortImportContents(@, cfg)]]
    IN Flatten([g \in 1..Len(sortedGroups) |-> SortedOf(sortedGroups[g])])

\* The chunks side-effect statements cut the list into: each side-effect
\* statement alone, the statements between them together.
RECURSIVE chunksOf(_, _)
chunksOf(imports, currentChunk) ==
    IF imports = <<>>
    THEN (IF currentChunk # <<>> THEN <<currentChunk>> ELSE <<>>)
    ELSE IF Head(imports).isSideEffect
    THEN (IF currentChunk # <<>> THEN <<currentChunk>> ELSE <<>>)
         \o <<(<<Head(imports)>>)>> \o chunksOf(Tail(imports), <<>>)
    ELSE chunksOf(Tail(imports), Append(currentChunk, Head(imports)))

sortImportsWithSideEffectSeparators(imports, cfg) ==
    LET chunks == chunksOf(imports, <<>>)
    IN Flatten([c \in 1..Len(chunks) |->
                  IF Len(chunks[c]) = 1 /\ chunks[c][1].isSideEffect
                  THEN chunks[c]
                  ELSE sortStatementList(chunks[c], cfg)])

sortImports(imports, cfg) ==
    IF ~cfg.sortSideEffect
    THEN sortImportsWithSideEffectSeparators(imports, cfg)
    ELSE sortStatementList(imports, cfg)

-----------------------------------------------------------------------------
(* sorter: mergeImports *)

\* Keys without the position of the statement
mergeKeyWithoutStart(statement) ==
    IF statement.isSideEffect
    THEN <<statement.path, statement.isExport, "sideEffect", -1>>
    ELSE IF \E i \in 1..Len(statement.importContents) :
                statement.importContents[i].name = "*"
    THEN <<statement.path, statement.isExport, "namespace", -1>>
    ELSE <<statement.path, statement.isExport, "", -1>>

\* The key of a statement in mergedMap
mergeKey(statement) ==
    IF statement.isSideEffect
    THEN <<statement.path, statement.isExport, "sideEffect", statement.start>>
    ELSE IF \E i \in 1..Len(statement.importContents) :
                statement.importContents[i].name = "*"
    THEN <<statement.path, statement.isExport, "namespace", statement.start>>
    ELSE <<statement.path, statement.isExport, "", -1>>

\* One content of a later statement against the contents merged so far
mergeContent(mergedContents, content) ==
    LET same == {i \in 1..Len(mergedContents) :
                   /\ mergedContents[i].name = content.name
                   /\ mergedContents[i].alias = content.alias}
    IN IF same = {} THEN Append(mergedContents, content)
       ELSE LET e == CHOOSE i \in same : \A j \in same : i <= j
            IN [mergedContents EXCEPT
                  ![e].leadingComments = @ \o content.leadingComments,
                  ![e].trailingComments = @ \o content.trailingComments]

RECURSIVE mergeContents(_, _)
mergeContents(mergedContents, contents) ==
    IF contents = <<>> THEN mergedContents
    ELSE mergeContents(mergeContent(mergedContents, Head(contents)),
                       Tail(contents))

\* A merge that forgets the trailing comments of the later statement
mergeIntoDroppingTrailing(existing, statement) ==
    [existing EXCEPT
        !.importContents = mergeContents(@, statement.importContents),
        !.leadingComments = @ \o statement.leadingComments]

\* A later statement of a key merged into the entry of that key
mergeInto(existing, statement) ==
    [existing EXCEPT
        !.importContents = mergeContents(@, statement.importContents),
        !.leadingComments = @ \o statement.leadingComments,
        !.removedTrailingComments = @ \o statement.trailingComments]

\* mergedMap as the sequence of its entries in insertion order
RECURSIVE mergeFrom(_, _)
mergeFrom(imports, mergedMap) ==
    IF imports = <<>> THEN mergedMap
    ELSE LET statement == Head(imports)
             key == mergeKey(statement)
             at == {i \in 1..Len(mergedMap) : mergedMap[i].key = key}
             plain == key[3] = ""
         IN mergeFrom(Tail(imports),
               IF at = {}
               THEN Append(mergedMap, [key |-> key, value |-> statement])
               ELSE LET i == CHOOSE j \in at : TRUE
                    IN [mergedMap EXCEPT ![i].value =
                          IF plain THEN mergeInto(@, statement)
                          ELSE statement])

mergeImports(imports) ==
    LET mergedMap == mergeFrom(imports, <<>>)
    IN [i \in 1..Len(mergedMap) |-> mergedMap[i].value]

\* mergeImports on the objects of its input.  <<n, i>> names the content
\* object imports[n].importContents[i]; statements and arrays are copied
\* ({ ...statement }, [...existing.importContents]), content objects are
\* not.  heap is the input list with the fields its objects hold now, and
\* mergedContents the objects an entry of mergedMap refers to.
findContent(heap, mergedContents, content) ==
    {k \in 1..Len(mergedContents) :
        LET c == heap[mergedContents[k][1]].importContents[mergedContents[k][2]]
        IN c.name = content.name /\ c.alias = content.alias}

\* The contents i, i + 1, ... of statement n against the entry of its key
RECURSIVE mergeContentObjects(_, _, _, _)
mergeContentObjects(heap, mergedContents, n, i) ==
    IF i > Len(heap[n].importContents)
    THEN [heap |-> heap, mergedContents |-> mergedContents]
    ELSE LET content == heap[n].importContents[i]
             found == findContent(heap, mergedContents, content)
         IN IF found = {}
            THEN mergeContentObjects(heap, Append(mergedContents, <<n, i>>),
                                     n, i + 1)
            ELSE LET existingContent ==
                         mergedContents[CHOOSE k \in found :
                                           \A l \in found : k <= l]
                 IN mergeContentObjects(
                       [heap EXCEPT
                          ![existingContent[1]].importContents[existingContent[2]] =
                             [@ EXCEPT
                                !.leadingComments =
                                    @ \o content.leadingComments,
                                !.trailingComments =
                                    @ \o content.trailingComments]],
                       mergedContents, n, i + 1)

RECURSIVE mergeObjectsFrom(_, _, _)
mergeObjectsFrom(heap, mergedMap, n) ==
    IF n > Len(heap) THEN heap
    ELSE LET statement == heap[n]
             key == mergeKey(statement)
             at == {i \in 1..Len(mergedMap) : mergedMap[i].key = key}
         IN IF key[3] # "" THEN mergeObjectsFrom(heap, mergedMap, n + 1)
            ELSE IF at = {}
            THEN mergeObjectsFrom(
                    heap,
                    Append(mergedMap,
                           [key |-> key,
                            mergedContents |->
                                [i \in 1..Len(statement.importContents) |->
                                    <<n, i>>]]),
                    n + 1)
            ELSE LET i == CHOOSE j \in at : TRUE
                     r == mergeContentObjects(heap,
                                              mergedMap[i].mergedContents,
                                              n, 1)
                 IN mergeObjectsFrom(
                       r.heap,
                       [mergedMap EXCEPT ![i].mergedContents = r.mergedContents],
                       n + 1)

\* The list handed to mergeImports as it is when mergeImports has returned
mergeImportsInput(imports) == mergeObjectsFrom(imports, <<>>, 1)

-----------------------------------------------------------------------------
(* formatter *)

\* A list of lines joined with "\n"; a line is a sequence of tokens
joinLines(lines) == Join(lines, <<NL>>)

CommentTokens(comments) == [i \in 1..Len(comments) |-> Cmt(comments[i])]

CommentLines(comments) == [i \in 1..Len(comments) |-> <<Cmt(comments[i])>>]

\* No specifier is ever given the prefix
typePrefixNever(content) == FALSE

\* typePrefix: whether `type ` is written before a named specifier
typePrefix(content) == content.type = "type"

formatImportStatement(statement) ==
    LET importContents == statement.importContents
        keyword == IF statement.isExport THEN "export" ELSE "import"
        IsHead(c) == c.name = "default" \/ c.name = "*"
        IsNamed(c) == c.name # "default" /\ c.name # "*"
        heads == SelectSeq(importContents, IsHead)
        namedImports == SelectSeq(importContents, IsNamed)
        hasNamedImportComments ==
            \E i \in 1..Len(namedImports) :
                \/ namedImports[i].leadingComments # <<>>
                \/ namedImports[i].trailingComments # <<>>
        \* `X` for a default import, `* as X` for a namespace import
        parts == [i \in 1..Len(heads) |->
                    IF heads[i].name = "default"
                    THEN Head_("default",
                               IF heads[i].alias # "" THEN heads[i].alias
                               ELSE "default")
                    ELSE Head_("ns",
                               IF heads[i].alias # "" THEN heads[i].alias
                               ELSE "namespace")]
        allNamedImportsAreTypes ==
            \A i \in 1..Len(namedImports) : namedImports[i].type = "type"
        hasDefaultOrNamespace == heads # <<>>
        typeKeyword == allNamedImportsAreTypes /\ ~hasDefaultOrNamespace
        multiLine ==
            [Src(keyword, typeKeyword, "clause", parts, TRUE,
                 [i \in 1..Len(namedImports) |->
                    [tp |-> typePrefix(namedImports[i]),
                     name |-> namedImports[i].name,
                     alias |-> namedImports[i].alias,
                     lc |-> namedImports[i].leadingComments,
                     tc |-> namedImports[i].trailingComments]],
                 statement.path)
             EXCEPT !.layout = "multi"]
        singleLine ==
            Src(keyword, typeKeyword, "clause", parts, namedImports # <<>>,
                [i \in 1..Len(namedImports) |->
                    Named(IF typeKeyword THEN FALSE
                          ELSE typePrefix(namedImports[i]),
                          namedImports[i].name, namedImports[i].alias)],
                statement.path)
        importLines ==
            IF statement.isSideEffect
            THEN <<(<<Stmt(Src(keyword, FALSE,
                               IF statement.isExport THEN "star" ELSE "bare",
                               <<>>, FALSE, <<>>, statement.path))>>
                    \o CommentTokens(statement.trailingComments))>>
            ELSE IF hasNamedImportComments /\ namedImports # <<>>
            THEN <<(<<Stmt(multiLine)>>)>>
            ELSE <<(<<Stmt(singleLine)>>
                    \o CommentTokens(statement.trailingComments))>>
        removedLines ==
            IF ~statement.isSideEffect /\ statement.removedTrailingComments # <<>>
            THEN <<(<<>>)>> \o CommentLines(statement.removedTrailingComments)
            ELSE <<>>
    IN joinLines(CommentLines(statement.leadingComments)
                 \o importLines \o removedLines)

\* The separator before group `index` (0-based): defined or not, and its text
separatorOf(cfg, group, index) ==
    CASE cfg.separator = "undefined" -> [defined |-> FALSE, str |-> <<>>]
      [] cfg.separator = "empty" -> [defined |-> TRUE, str |-> <<>>]
      [] cfg.separator = "comment" ->
            [defined |-> TRUE, str |-> <<Cmt("//sep")>>]
      [] cfg.separator = "function" ->
            IF index = 0 THEN [defined |-> FALSE, str |-> <<>>]
            ELSE [defined |-> TRUE, str |-> <<NL>>]

formatGroups(groups, cfg) ==
    LET LinesOf(i) ==
            LET group == groups[i]
                sep == separatorOf(cfg, group, i - 1)
            IN (IF sep.defined
                THEN <<(<<>>)>> \o (IF sep.str # <<>> THEN <<sep.str>> ELSE <<>>)
                ELSE <<>>)
               \o [n \in 1..Len(group.importStatements) |->
                     formatImportStatement(group.importStatements[n])]
    IN joinLines(Flatten([i \in 1..Len(groups) |-> LinesOf(i)]))

formatImportStatements(statements) ==
    joinLines([i \in 1..Len(statements) |-> formatImportStatement(statements[i])])

-----------------------------------------------------------------------------
(* index: preprocessImports *)

\* The lists sortImports groups and sorts: the whole list, or the chunks
\* between side-effect statements.
listsToSort(importList, cfg) ==
    IF cfg.sortSideEffect
    THEN (IF importList = <<>> THEN <<>> ELSE <<importList>>)
    ELSE LET NotSideEffect(chunk) == ~chunk[1].isSideEffect
         IN SelectSeq(chunksOf(importList, <<>>), NotSideEffect)

\* A caller-supplied function throws when it is called; config.throws names
\* the function that does.
sortThrows(importList, cfg) ==
    \E l \in Range(listsToSort(importList, cfg)) :
        \/ cfg.throws = "getGroup"
        \/ cfg.throws = "sortGroup" /\ Len(groupImports(l, cfg)) >= 2
        \/ /\ cfg.throws = "sortImportStatement"
           /\ \E g \in Range(groupImports(l, cfg)) : Len(g.importStatements) >= 2
        \/ /\ cfg.throws = "sortImportContent"
           /\ \E i \in 1..Len(l) : Len(l[i].importContents) >= 2

formatThrows(importList, cfg) ==
    /\ cfg.getGroup # "undefined"
    /\ importList # <<>>
    /\ \/ cfg.throws = "getGroup"
       \/ cfg.throws = "sortGroup" /\ Len(groupImports(importList, cfg)) >= 2
       \/ cfg.throws = "separator"

\* A catch block that logs the error and returns nothing
catchBlockReturnsNothing(txt, locals) ==
    [locals EXCEPT !.threw = TRUE, !.result = <<>>]

\* The catch block: the error is logged and the original text returned
catchBlock(txt, locals) == [locals EXCEPT !.threw = TRUE, !.result = txt]

\* Every local of one call (groups: the groups sortImports made of each list
\* it sorted), and the text it returns
preprocessImports(txt, cfg) ==
    LET none == [imports |-> <<>>, processedImports |-> <<>>,
                 groups |-> <<>>, sortedImports |-> <<>>,
                 mergedImports |-> <<>>, sortedGroups |-> <<>>,
                 formattedImports |-> <<>>, threw |-> FALSE, result |-> txt]
    IN IF BabelThrows(txt) THEN catchBlock(txt, none)
       ELSE
       LET imports_ == parseImports(txt)
       IN IF imports_ = <<>> THEN none
          ELSE
          LET lastImport == imports_[Len(imports_)]
              codeAfterImports == Slice(txt, lastImport.end, Len(txt))
              processed ==
                  IF cfg.removeUnusedImports
                  THEN removeUnusedImportsFromStatements(imports_,
                                                         codeAfterImports)
                  ELSE imports_
              parsed == [none EXCEPT !.imports = imports_,
                                     !.processedImports = processed]
          IN IF sortThrows(processed, cfg) THEN catchBlock(txt, parsed)
             ELSE
             LET sorted == sortImports(processed, cfg)
                 merged == mergeImports(sorted)
                 lists == listsToSort(processed, cfg)
                 arranged ==
                     [parsed EXCEPT
                        !.groups = Flatten([l \in 1..Len(lists) |->
                                              groupImports(lists[l], cfg)]),
                        !.sortedImports = sorted,
                        !.mergedImports = merged]
             IN IF formatThrows(merged, cfg)
                THEN catchBlock(txt, arranged)
                ELSE
                LET groups == IF cfg.getGroup # "undefined"
                              THEN sortGroups(groupImports(merged, cfg), cfg)
                              ELSE <<>>
                    formatted == IF cfg.getGroup # "undefined"
                                 THEN formatGroups(groups, cfg)
                                 ELSE formatImportStatements(merged)
                    startIndex == imports_[1].start
                    endIndex == lastImport.end
                    beforeImports == Slice(txt, 0, startIndex)
                    afterImports == Slice(txt, endIndex, Len(txt))
                    needsExtraNewline ==
                        afterImports # <<>> /\ afterImports[1] # NL
                    separator ==
                        IF needsExtraNewline THEN <<NL, NL>> ELSE <<NL>>
                IN [arranged EXCEPT
                      !.sortedGroups = groups,
                      !.formattedImports = formatted,
                      !.result = beforeImports \o formatted \o separator
                                 \o afterImports]

-----------------------------------------------------------------------------
(* index: configuration sources and plugin instances.  src/index.ts holds  *)
(* more than one text of the module.  The first (lines 1-236) keeps the    *)
(* createPlugin argument in the module-level userConfig and reads a        *)
(* configuration file named by the option sortImportsConfigPath; the       *)
(* second (238-470) hands the argument to createPluginInstance and chains  *)
(* the preprocess functions of config.otherPlugins.  A third (472-631) is  *)
(* the first without the configuration file: it behaves as the first does  *)
(* when the option is not set.  Which text is the module is not for the    *)
(* model to pick: build is either.                                         *)

\* a ?? b
Nullish(a, b) == IF a # "undefined" THEN a ELSE b

\* {}: a PluginConfig with no field set.  In a configuration source a
\* boolean is "true" or "false" and a field that is not set "undefined"; the
\* config a transform works with holds the boolean its code tests.
NoConfig ==
    [getGroup |-> "undefined", sortGroup |-> "undefined",
     sortImportStatement |-> "undefined", sortImportContent |-> "undefined",
     separator |-> "undefined", sortSideEffect |-> "undefined",
     removeUnusedImports |-> "undefined"]

\* A map entry or a file that is not there, and one that holds config c
Absent == [has |-> FALSE, config |-> NoConfig]
Holding(c) == [has |-> TRUE, config |-> c]

\* loadConfigFromPath without the look into configCache
loadConfigFromPathUncached(configPath, cache, disk) ==
    LET loaded == IF disk[configPath].has THEN disk[configPath].config
                  ELSE NoConfig
    IN [config |-> loaded,
        configCache |-> [cache EXCEPT ![configPath] = Holding(loaded)],
        required |-> TRUE]

\* loadConfigFromPath: the config returned, configCache after the call and
\* whether require was called; require of a file that is not there throws
\* and the catch block stores and returns an empty config
loadConfigFromPath(configPath, cache, disk) ==
    IF cache[configPath].has
    THEN [config |-> cache[configPath].config, configCache |-> cache,
          required |-> FALSE]
    ELSE LET loaded == IF disk[configPath].has THEN disk[configPath].config
                       ELSE NoConfig
         IN [config |-> loaded,
             configCache |-> [cache EXCEPT ![configPath] = Holding(loaded)],
             required |-> TRUE]

\* First text: the config object built from userConfig, the file and options
buildConfig(userCfg, fileConfig, options) ==
    [getGroup |->
        Nullish(userCfg.getGroup,
                Nullish(fileConfig.getGroup, options.getGroup)),
     sortGroup |->
        Nullish(userCfg.sortGroup,
                Nullish(fileConfig.sortGroup, options.sortGroup)),
     sortImportStatement |->
        Nullish(userCfg.sortImportStatement,
                Nullish(fileConfig.sortImportStatement,
                        options.sortImportStatement)),
     sortImportContent |->
        Nullish(userCfg.sortImportContent,
                Nullish(fileConfig.sortImportContent,
                        options.sortImportContent)),
     separator |->
        Nullish(userCfg.separator,
                Nullish(fileConfig.separator,
                        Nullish(options.importSortSeparator,
                                options.separator))),
     sortSideEffect |->
        Nullish(userCfg.sortSideEffect,
                Nullish(fileConfig.sortSideEffect,
                        Nullish(options.importSortSideEffect, "false")))
        = "true",
     removeUnusedImports |->
        Nullish(userCfg.removeUnusedImports,
                Nullish(fileConfig.removeUnusedImports,
                        Nullish(options.importSortRemoveUnused, "false")))
        = "true",
     throws |-> "none"]

\* Second text: finalConfig, from the config of the instance and options
finalConfig(cfg, optionsConfig) ==
    [getGroup |-> Nullish(cfg.getGroup, optionsConfig.getGroup),
     sortGroup |-> Nullish(cfg.sortGroup, optionsConfig.sortGroup),
     sortImportStatement |->
        Nullish(cfg.sortImportStatement, optionsConfig.sortImportStatement),
     sortImportContent |->
        Nullish(cfg.sortImportContent, optionsConfig.sortImportContent),
     separator |->
        Nullish(cfg.separator,
                Nullish(optionsConfig.importSortSeparator,
                        optionsConfig.separator)),
     sortSideEffect |->
        Nullish(cfg.sortSideEffect,
                Nullish(optionsConfig.importSortSideEffect, "false"))
        = "true",
     removeUnusedImports |->
        Nullish(cfg.removeUnusedImports,
                Nullish(optionsConfig.importSortRemoveUnused, "false"))
        = "true",
     throws |-> "none"]

\* Whether preprocessImports gets as far as reading its configuration
readsConfig(txt) == ~BabelThrows(txt) /\ parseImports(txt) # <<>>

\* The preprocess of a parser of another plugin, as what it does to a text:
\* nothing there ("undefined"), a banner comment put on top, an import put
\* on top, or an exception
otherPreprocess(kind, txt) ==
    CASE kind = "banner" -> <<Cmt("//banner"), NL>> \o txt
      [] kind = "import" -> <<Stmt([kw |-> "import", typeKw |-> FALSE,
                                    form |-> "bare", heads |-> <<>>,
                                    braces |-> FALSE, named |-> <<>>,
                                    path |-> "normalize.css",
                                    layout |-> "single"]), NL>> \o txt
      [] OTHER -> txt

\* preprocessFunctions: 0 is the import sorting of this plugin, i the
\* preprocess of otherPlugins[i]
preprocessFunctions(parserName, others) ==
    <<0>> \o SelectSeq([i \in 1..Len(others) |-> i],
                       LAMBDA i : others[i].parsers[parserName] # "undefined")

\* A chain that ends at the first exception
catchPreprocessRethrows(processedText) ==
    [processedText |-> processedText, goOn |-> FALSE]

\* The catch block of the chain: a warning, and the loop goes on
catchPreprocess(processedText) ==
    [processedText |-> processedText, goOn |-> TRUE]

\* One turn of the loop: the call in the try block, or the catch block
chainStep(fn, processedText, parserName, cfg, others) ==
    LET kind == IF fn = 0 THEN "preprocessImports"
                ELSE others[fn].parsers[parserName]
    IN IF kind = "throws"
       THEN LET c == catchPreprocess(processedText)
            IN [processedText |-> c.processedText, goOn |-> c.goOn,
                failed |-> TRUE]
       ELSE [processedText |->
                IF fn = 0 THEN preprocessImports(processedText, cfg).result
                ELSE otherPreprocess(kind, processedText),
             goOn |-> TRUE, failed |-> FALSE]

\* The loop over preprocessFunctions from position k on; loopAfter is the
\* rest of a turn, once its call has returned or its catch block has run
RECURSIVE runChain(_, _, _, _, _, _, _), loopAfter(_, _, _, _, _, _, _)
loopAfter(fns, k, step, parserName, cfg, others, acc) ==
    LET next == [acc EXCEPT
                   !.log = Append(@, fns[k]),
                   !.failed = IF step.failed THEN @ \cup {k} ELSE @]
    IN IF step.goOn
       THEN runChain(fns, k + 1, step.processedText, parserName, cfg,
                     others, next)
       ELSE [next EXCEPT !.threw = TRUE]

runChain(fns, k, processedText, parserName, cfg, others, acc) ==
    IF k > Len(fns)
    THEN [acc EXCEPT !.result = processedText]
    ELSE loopAfter(fns, k,
                   chainStep(fns[k], processedText, parserName, cfg, others),
                   parserName, cfg, others, acc)

\* combinedPreprocess of the parser parserName: the functions called in
\* order (log), the positions that threw (failed), the text returned
\* (result), and whether an exception left the function (threw).  With no
\* other plugin it is the one call of preprocessImports, which catches its
\* own exceptions.
combinedPreprocess(parserName, txt, cfg, others) ==
    LET none == [parserName |-> parserName, log |-> <<>>, failed |-> {},
                 result |-> <<>>, threw |-> FALSE, done |-> TRUE]
    IN runChain(IF Len(others) = 0 THEN <<0>>
                ELSE preprocessFunctions(parserName, others),
                1, txt, parserName, cfg, others, none)

-----------------------------------------------------------------------------
(* The files and configurations of the model *)

ImportNamed(name, path) ==
    Src("import", FALSE, "clause", <<>>, TRUE, <<Named(FALSE, name, "")>>, path)

StatementPool ==
    { ImportNamed("b", "react"),
      ImportNamed("a", "react"),
      ImportNamed("a", "@/c"),
      \* import { a, a } from "react": an error the parser recovers from
      Src("import", FALSE, "clause", <<>>, TRUE,
          <<Named(FALSE, "a", ""), Named(FALSE, "a", "")>>, "react"),
      Src("import", FALSE, "clause", <<Head_("default", "R")>>, FALSE, <<>>,
          "react"),
      Src("import", FALSE, "clause", <<Head_("ns", "N")>>, FALSE, <<>>,
          "react"),
      Src("import", TRUE, "clause", <<>>, TRUE, <<Named(FALSE, "T", "")>>,
          "react"),
      Src("import", FALSE, "bare", <<>>, FALSE, <<>>, "./z"),
      Src("import", FALSE, "bare", <<>>, FALSE, <<>>, "normalize.css"),
      Src("export", FALSE, "clause", <<>>, TRUE, <<Named(FALSE, "a", "")>>,
          "./a"),
      Src("export", FALSE, "star", <<>>, FALSE, <<>>, "./a") }

ListsUpTo(n) == UNION {[1..m -> StatementPool] : m \in 0..n}

StatementLists == ListsUpTo(MaxStmts)

ShortLists == ListsUpTo(MaxStmts - 1)

\* One statement per line
Block(statements) ==
    joinLines([i \in 1..Len(statements) |-> <<Stmt(statements[i])>>])

DefaultConfig ==
    [getGroup |-> "undefined", sortGroup |-> "undefined",
     sortImportStatement |-> "undefined", sortImportContent |-> "undefined",
     separator |-> "undefined", sortSideEffect |-> FALSE,
     removeUnusedImports |-> FALSE, throws |-> "none"]

RemoveConfig == [DefaultConfig EXCEPT !.removeUnusedImports = TRUE]

CustomConfig ==
    [DefaultConfig EXCEPT !.getGroup = "custom", !.sortGroup = "custom",
                          !.sortImportStatement = "custom",
                          !.sortImportContent = "custom",
                          !.separator = "function"]

BaseConfigs ==
    {[DefaultConfig EXCEPT !.getGroup = g, !.sortSideEffect = e]
        : g \in {"undefined", "custom"}, e \in BOOLEAN}
    \cup {RemoveConfig}

CustomConfigs ==
    {[DefaultConfig EXCEPT !.getGroup = "custom", !.sortGroup = g,
                           !.separator = s, !.sortSideEffect = e]
        : g \in {"undefined", "custom"},
          s \in {"undefined", "empty", "comment", "function"},
          e \in BOOLEAN}
    \cup {[DefaultConfig EXCEPT !.sortImportStatement = "custom",
                                !.sortImportContent = "custom",
                                !.sortSideEffect = e] : e \in BOOLEAN}
    \cup {[CustomConfig EXCEPT !.throws = t, !.sortSideEffect = e]
            : t \in {"getGroup", "sortGroup", "sortImportStatement",
                     "sortImportContent", "separator"},
              e \in BOOLEAN}

\* The code after the block references a and R
MainTail == <<NL, NL, Code({"a", "R"}, "none")>>

\* Code that references nothing, and code whose traversal throws
AnalysisTails ==
    { <<NL, NL, Code({}, "none")>>,
      <<NL, NL, Code({"a"}, "scope")>>,
      <<NL, NL, Code({"a"}, "none"), NL, Code({}, "visit")>> }

Headers ==
    { <<>>,
      <<Cmt("//h"), NL, NL>>,
      <<Cmt("//l"), NL>>,
      <<Code({}, "none"), NL>> }

Tails ==
    { <<>>,
      <<NL>>,
      MainTail,
      <<Code({"a"}, "none")>>,
      <<Cmt("//t"), NL, Code({"a"}, "none")>>,
      <<NL, Cmt("//n"), NL, Code({"a"}, "none")>>,
      <<NL, Code({"a"}, "none"), NL, Stmt(ImportNamed("b", "react"))>>,
      <<NL, Code({"a"}, "syntax")>> }

Inputs ==
    {<<Block(ss) \o MainTail, c>> : ss \in StatementLists, c \in BaseConfigs}
    \cup {<<Block(ss) \o t, RemoveConfig>>
            : ss \in StatementLists, t \in AnalysisTails}
    \cup {<<h \o Block(ss) \o t, DefaultConfig>>
            : h \in Headers, ss \in ShortLists, t \in Tails}
    \cup {<<Block(ss) \o MainTail, c>> : ss \in ShortLists, c \in CustomConfigs}

\* Statements with type and aliased specifiers, default and namespace
\* imports and comments; each with the lines it is written on
TypeT == Named(TRUE, "T", "")

RichPool ==
    { \* import R, { b, type T, a } from "react"
      <<Stmt(Src("import", FALSE, "clause", <<Head_("default", "R")>>, TRUE,
                 <<Named(FALSE, "b", ""), TypeT, Named(FALSE, "a", "")>>,
                 "react"))>>,
      \* import R, * as N from "react"
      <<Stmt(Src("import", FALSE, "clause",
                 <<Head_("default", "R"), Head_("ns", "N")>>, FALSE, <<>>,
                 "react"))>>,
      \* import { type T } from "react"
      <<Stmt(Src("import", FALSE, "clause", <<>>, TRUE, <<TypeT>>, "react"))>>,
      \* import { /*l*/ type T /*t*/ } from "react"
      <<Stmt(Src("import", FALSE, "clause", <<>>, TRUE,
                 <<[TypeT EXCEPT !.lc = <<"/*l*/">>, !.tc = <<"/*t*/">>]>>,
                 "react"))>>,
      \* import /*d*/ R from "react"
      <<Stmt(Src("import", FALSE, "clause",
                 <<[Head_("default", "R") EXCEPT !.lc = <<"/*d*/">>]>>,
                 FALSE, <<>>, "react"))>>,
      \* import { b as a } from "react"
      <<Stmt(Src("import", FALSE, "clause", <<>>, TRUE,
                 <<Named(FALSE, "b", "a")>>, "react"))>>,
      \* //l
      \* import { a } from "react" //t
      <<Cmt("//l"), NL, Stmt(ImportNamed("a", "react")), Cmt("//t")>>,
      \* import { b } from "react" //u
      <<Stmt(ImportNamed("b", "react")), Cmt("//u")>>,
      \* import * as N from "react"
      <<Stmt(Src("import", FALSE, "clause", <<Head_("ns", "N")>>, FALSE, <<>>,
                 "react"))>>,
      \* import "react"
      <<Stmt(Src("import", FALSE, "bare", <<>>, FALSE, <<>>, "react"))>> }

MaxRich == 3

RichLists(n) == UNION {[1..m -> RichPool] : m \in 0..n}

\* A custom content comparator, and a separator without a classify function
ContentConfig == [DefaultConfig EXCEPT !.sortImportContent = "custom"]

SeparatorConfig == [DefaultConfig EXCEPT !.separator = "comment"]

\* Code that references N and T, <N.B />, <R />, and nothing
UsageTails ==
    { MainTail,
      <<NL, NL, Code({"N", "T"}, "none")>>,
      <<NL, NL, JsxElement(<<"N", "B">>)>>,
      <<NL, NL, JsxElement(<<"R">>)>>,
      <<NL, NL, Code({}, "none")>> }

RichInputs ==
    {<<joinLines(ls) \o MainTail, c>>
        : ls \in RichLists(MaxRich),
          c \in {DefaultConfig, ContentConfig, SeparatorConfig}}
    \cup {<<joinLines(ls) \o t, RemoveConfig>>
            : ls \in RichLists(MaxRich - 1), t \in UsageTails}

\* Statements under header comments, re-exports of default, an empty export
\* clause, and one binding imported as a type and as a value
EdgePool ==
    { \* //p
      \* //q
      \* import { a } from "react"
      <<Cmt("//p"), NL, Cmt("//q"), NL, Stmt(ImportNamed("a", "react"))>>,
      \* //p
      \*
      \* import { b } from "react"
      <<Cmt("//p"), NL, NL, Stmt(ImportNamed("b", "react"))>>,
      \* import { a } from "@/c"
      <<Stmt(ImportNamed("a", "@/c"))>>,
      \* export { default as R } from "./a"
      <<Stmt(Src("export", FALSE, "clause", <<>>, TRUE,
                 <<Named(FALSE, "default", "R")>>, "./a"))>>,
      \* export { default } from "./a"
      <<Stmt(Src("export", FALSE, "clause", <<>>, TRUE,
                 <<Named(FALSE, "default", "")>>, "./a"))>>,
      \* export {} from "./a"
      <<Stmt(Src("export", FALSE, "clause", <<>>, TRUE, <<>>, "./a"))>>,
      \* import { type a } from "react"
      <<Stmt(Src("import", FALSE, "clause", <<>>, TRUE,
                 <<Named(TRUE, "a", "")>>, "react"))>>,
      \* import type R from "react"
      <<Stmt(Src("import", TRUE, "clause", <<Head_("default", "R")>>, FALSE,
                 <<>>, "react"))>>,
      \* import R from "react"
      <<Stmt(Src("import", FALSE, "clause", <<Head_("default", "R")>>, FALSE,
                 <<>>, "react"))>>,
      \* import { a } from "react"
      <<Stmt(ImportNamed("a", "react"))>> }

MaxEdge == 3

EdgeLists(n) == UNION {[1..m -> EdgePool] : m \in 0..n}

EdgeInputs ==
    {<<joinLines(ls) \o MainTail, DefaultConfig>> : ls \in EdgeLists(MaxEdge)}

\* Configuration sources: createPlugin arguments, files, host options
ExplicitFalse ==
    [NoConfig EXCEPT !.sortSideEffect = "false",
                     !.removeUnusedImports = "false"]

PluginConfigs ==
    { ExplicitFalse,
      [NoConfig EXCEPT !.sortSideEffect = "true", !.getGroup = "custom",
                       !.separator = "function"] }

Paths == {"./a.cjs", "./b.cjs"}

FileConfig ==
    [NoConfig EXCEPT !.sortSideEffect = "true",
                     !.removeUnusedImports = "true",
                     !.separator = "comment"]

FileContents == {Absent, Holding(FileConfig)}

NoOptions ==
    [getGroup |-> "undefined", sortGroup |-> "undefined",
     sortImportStatement |-> "undefined", sortImportContent |-> "undefined",
     importSortSeparator |-> "undefined", separator |-> "undefined",
     importSortSideEffect |-> "false", importSortRemoveUnused |-> "false",
     sortImportsConfigPath |-> "undefined"]

HostOptions ==
    {NoOptions}
    \cup {[NoOptions EXCEPT !.sortImportsConfigPath = p] : p \in Paths}
    \cup {[NoOptions EXCEPT !.importSortSideEffect = "true",
                            !.importSortSeparator = "empty",
                            !.sortImportsConfigPath = "./a.cjs"]}

\* import { b } from "react" / import "./z" / import { a } from "react",
\* then code that uses a and R; and a file without imports
PluginTexts ==
    { Block(<<ImportNamed("b", "react"),
              Src("import", FALSE, "bare", <<>>, FALSE, <<>>, "./z"),
              ImportNamed("a", "react")>>) \o MainTail,
      <<Code({}, "none")>> }

MaxPlugins == 2

MaxTransforms == 2

NoTransform ==
    [plugin |-> 0, options |-> NoOptions, loaded |-> "undefined",
     hit |-> FALSE, fileConfig |-> NoConfig, onDisk |-> Absent]

\* Other plugins: what the preprocess of each of their parsers does
ParserNames == {"babel", "typescript", "babel-ts"}

OtherPlugin(kind) == [parsers |-> [n \in ParserNames |-> kind]]

OtherPluginPool ==
    { OtherPlugin("banner"),
      OtherPlugin("import"),
      OtherPlugin("throws"),
      OtherPlugin("undefined"),
      [parsers |-> [n \in ParserNames |->
                      IF n = "typescript" THEN "banner" ELSE "undefined"]] }

MaxOthers == 3

OtherPluginLists == UNION {[1..m -> OtherPluginPool] : m \in 0..MaxOthers}

NoChain ==
    [parserName |-> "babel", log |-> <<>>, failed |-> {}, result |-> <<>>,
     threw |-> FALSE, done |-> FALSE]

\* No plugin layer: one plugin, no configuration source, no other plugin
PluginIdle ==
    /\ build = "second"
    /\ userConfig = NoConfig
    /\ configCache = [p \in Paths |-> Absent]
    /\ files = [p \in Paths |-> Absent]
    /\ loads = [p \in Paths |-> 0]
    /\ plugins = <<NoConfig>>
    /\ transform = NoTransform
    /\ otherPlugins = <<>>
    /\ chain = NoChain

NoCall ==
    [imports |-> <<>>, processedImports |-> <<>>, groups |-> <<>>,
     sortedImports |-> <<>>, mergedImports |-> <<>>, sortedGroups |-> <<>>,
     formattedImports |-> <<>>, threw |-> FALSE, result |-> <<>>]

Init ==
    /\ \E input \in Inputs : text = input[1] /\ config = input[2]
    /\ pc = "ready"
    /\ calls = 0
    /\ call = NoCall
    /\ prevOut = <<>>
    /\ PluginIdle

\* The host calls the parser's preprocess on the text
Preprocess ==
    /\ pc = "ready"
    /\ call' = preprocessImports(text, config)
    /\ prevOut' = call.result
    /\ calls' = calls + 1
    /\ pc' = "done"
    /\ UNCHANGED <<text, config, pluginVars>>

\* The returned text is formatted again with the same configuration
Resubmit ==
    /\ pc = "done"
    /\ calls < MaxCalls
    /\ text' = call.result
    /\ pc' = "ready"
    /\ UNCHANGED <<config, calls, call, prevOut, pluginVars>>

Next == Preprocess \/ Resubmit

Spec == Init /\ [][Next]_vars

\* The same calls on the statements of RichPool
InitRich ==
    /\ \E input \in RichInputs : text = input[1] /\ config = input[2]
    /\ pc = "ready"
    /\ calls = 0
    /\ call = NoCall
    /\ prevOut = <<>>
    /\ PluginIdle

SpecRich == InitRich /\ [][Next]_vars

\* The same calls on the statements of EdgePool
InitEdge ==
    /\ \E input \in EdgeInputs : text = input[1] /\ config = input[2]
    /\ pc = "ready"
    /\ calls = 0
    /\ call = NoCall
    /\ prevOut = <<>>
    /\ PluginIdle

SpecEdge == InitEdge /\ [][Next]_vars

\* createPlugin(c): the first text of the module stores c in userConfig,
\* the second hands it to createPluginInstance
CreatePlugin ==
    /\ Len(plugins) <= MaxPlugins
    /\ \E c \in PluginConfigs :
          /\ plugins' = Append(plugins, c)
          /\ userConfig' = IF build = "first" THEN c ELSE userConfig
    /\ UNCHANGED <<text, config, pc, calls, call, prevOut, build,
                   configCache, files, loads, transform, otherPlugins,
                   chain>>

\* The host calls the preprocess of a parser of plugin p with options o
Transform ==
    /\ calls < MaxTransforms
    /\ \E p \in 1..Len(plugins), o \in HostOptions :
          LET configPath == o.sortImportsConfigPath
              reads == /\ build = "first"
                       /\ readsConfig(text)
                       /\ configPath # "undefined"
              r == IF reads
                   THEN loadConfigFromPath(configPath, configCache, files)
                   ELSE [config |-> NoConfig, configCache |-> configCache,
                         required |-> FALSE]
              cfg == IF build = "first"
                     THEN buildConfig(userConfig, r.config, o)
                     ELSE finalConfig(plugins[p], o)
          IN /\ config' = cfg
             /\ call' = preprocessImports(text, cfg)
             /\ configCache' = r.configCache
             /\ loads' = IF r.required
                         THEN [loads EXCEPT ![configPath] = @ + 1]
                         ELSE loads
             /\ transform' = [plugin |-> p, options |-> o,
                              loaded |-> IF reads THEN configPath
                                         ELSE "undefined",
                              hit |-> reads /\ ~r.required,
                              fileConfig |-> r.config,
                              onDisk |-> IF configPath = "undefined"
                                         THEN Absent ELSE files[configPath]]
    /\ calls' = calls + 1
    /\ pc' = "done"
    /\ UNCHANGED <<text, prevOut, build, userConfig, files, plugins,
                   otherPlugins, chain>>

\* A configuration file is written, or removed, between two transforms
WriteFile ==
    /\ \E p \in Paths, c \in FileContents :
          /\ c # files[p]
          /\ files' = [files EXCEPT ![p] = c]
    /\ UNCHANGED <<text, config, pc, calls, call, prevOut, build,
                   userConfig, configCache, loads, plugins, transform,
                   otherPlugins, chain>>

InitPlugin ==
    /\ text \in PluginTexts
    /\ config = DefaultConfig
    /\ pc = "ready"
    /\ calls = 0
    /\ call = NoCall
    /\ prevOut = <<>>
    /\ build \in {"first", "second"}
    /\ userConfig = NoConfig
    /\ configCache = [p \in Paths |-> Absent]
    /\ files = [p \in Paths |-> Absent]
    /\ loads = [p \in Paths |-> 0]
    /\ plugins = <<NoConfig>>
    /\ transform = NoTransform
    /\ otherPlugins = <<>>
    /\ chain = NoChain

NextPlugin == CreatePlugin \/ Transform \/ WriteFile

SpecPlugin == InitPlugin /\ [][NextPlugin]_vars

\* The host calls the combined preprocess of one of the parsers of a plugin
\* created with otherPlugins
CombinedPreprocess ==
    /\ pc = "ready"
    /\ \E parserName \in ParserNames :
          chain' = combinedPreprocess(parserName, text, config, otherPlugins)
    /\ prevOut' = chain.result
    /\ calls' = calls + 1
    /\ pc' = "done"
    /\ UNCHANGED <<text, config, call, build, userConfig, configCache,
                   files, loads, plugins, transform, otherPlugins>>

\* The returned text is formatted again by the same plugin
ResubmitChain ==
    /\ pc = "done"
    /\ calls < MaxCalls
    /\ ~chain.threw
    /\ text' = chain.result
    /\ pc' = "ready"
    /\ UNCHANGED <<config, calls, call, prevOut, pluginVars>>

InitChain ==
    /\ text \in PluginTexts
    /\ config \in {DefaultConfig, [DefaultConfig EXCEPT !.sortSideEffect = TRUE]}
    /\ pc = "ready"
    /\ calls = 0
    /\ call = NoCall
    /\ prevOut = <<>>
    /\ build = "second"
    /\ userConfig = NoConfig
    /\ configCache = [p \in Paths |-> Absent]
    /\ files = [p \in Paths |-> Absent]
    /\ loads = [p \in Paths |-> 0]
    /\ plugins = <<NoConfig>>
    /\ transform = NoTransform
    /\ otherPlugins \in OtherPluginLists
    /\ chain = NoChain

NextChain == CombinedPreprocess \/ ResubmitChain

SpecChain == InitChain /\ [][NextChain]_vars

-----------------------------------------------------------------------------
(* Properties *)

\* The last call parsed a block and returned from its try block
Completed == pc = "done" /\ ~call.threw /\ call.imports # <<>>

\* The code the usage analysis of the last call was given
CodeAfterImports ==
    Slice(text, call.imports[Len(call.imports)].end, Len(text))

\* The statements in the order they are formatted
FinalOrder ==
    IF config.getGroup # "undefined"
    THEN Flatten([g \in 1..Len(call.sortedGroups) |->
                    call.sortedGroups[g].importStatements])
    ELSE call.mergedImports

IsSideEffect(st) == st.isSideEffect

\* C1: idempotence of the whole transform: preprocessImports run on its own
\* output with the same configuration returns that output unchanged.
C1_Idempotent == (pc = "done" /\ calls >= 2) => call.result = prevOut

\* C3: side-effect ordering: with sortSideEffect = false the side-effect
\* statements are formatted in the relative order they have in the input,
\* whatever the classify function, group comparator and separator.
C3_SideEffectOrderKept ==
    (Completed /\ ~config.sortSideEffect) =>
        LET sideEffects == SelectSeq(FinalOrder, IsSideEffect)
        IN \A i, j \in 1..Len(sideEffects) :
              i < j => sideEffects[i].start < sideEffects[j].start

\* C5: all-or-nothing on failure: a call in which a stage threw (parsing,
\* usage analysis, a caller-supplied function, formatting) returns exactly
\* the text it was given.
C5_AllOrNothing ==
    LET analysisThrew ==
            /\ config.removeUnusedImports
            /\ call.imports # <<>>
            /\ AnalysisThrows(CodeAfterImports)
    IN (pc = "done" /\ (call.threw \/ analysisThrew)) => call.result = text

\* C6: when the usage analysis fails, the unused-removal step is skipped:
\* what is handed to sorting is every statement and specifier of the block.
C6_FailedAnalysisSkipsRemoval ==
    (/\ pc = "done"
     /\ config.removeUnusedImports
     /\ call.imports # <<>>
     /\ AnalysisThrows(CodeAfterImports))
    => call.processedImports = call.imports

\* The bindings (path, isExport, name, alias) of the statements of a list
\* that stand before the side-effect statement that was parsed at `start`
BindingsBefore(importList, start) ==
    LET at == CHOOSE k \in 1..Len(importList) :
                  importList[k].isSideEffect /\ importList[k].start = start
    IN UNION {{<<importList[i].path, importList[i].isExport,
                 importList[i].importContents[n].name,
                 importList[i].importContents[n].alias>>
                 : n \in 1..Len(importList[i].importContents)}
              : i \in 1..(at - 1)}

\* C8: side-effect statements are hard boundaries when sortSideEffect = false
\* and unused removal is off: after sort and merge, the bindings before each
\* side-effect statement are those that stood before it in the input.
C8_NoBindingCrossesSideEffect ==
    (Completed /\ ~config.sortSideEffect /\ ~config.removeUnusedImports) =>
        \A k \in 1..Len(call.imports) :
            call.imports[k].isSideEffect =>
                BindingsBefore(call.mergedImports, call.imports[k].start)
                = BindingsBefore(call.imports, call.imports[k].start)

\* C5 as amended: when parsing, a caller-supplied function or formatting
\* throws, the call returns exactly the text it was given; a failure inside
\* the usage analysis is caught there and does not end the call in its
\* catch block.
C5_ThrowReturnsInput ==
    /\ (pc = "done" /\ call.threw) => call.result = text
    /\ (/\ pc = "done"
        /\ call.imports # <<>>
        /\ config.removeUnusedImports
        /\ config.throws = "none"
        /\ AnalysisThrows(CodeAfterImports)) => ~call.threw

\* A caller-supplied function threw after the block was parsed
C5_Witness ==
    /\ pc = "done"
    /\ call.threw
    /\ call.processedImports # <<>>
    /\ config.throws # "none"
    /\ call.result = text

-----------------------------------------------------------------------------
(* Properties of mergeImports *)

Mergeable(st) ==
    /\ ~st.isSideEffect
    /\ \A n \in 1..Len(st.importContents) : st.importContents[n].name # "*"

\* The statement an input statement ends up in: the one of its key
\* (path, isExport), or itself when it is excluded from merging
EntryOf(st) ==
    IF Mergeable(st) THEN <<st.path, st.isExport, -1>>
    ELSE <<st.path, st.isExport, st.start>>

\* seq without the elements that occur in acc or earlier in seq
RECURSIVE AppendNew(_, _)
AppendNew(acc, seq) ==
    IF seq = <<>> THEN acc
    ELSE AppendNew(IF Head(seq) \in Range(acc) THEN acc
                   ELSE Append(acc, Head(seq)),
                   Tail(seq))

Specifiers(st) ==
    [n \in 1..Len(st.importContents) |->
        <<st.importContents[n].name, st.importContents[n].alias>>]

\* The statements of the key of st, in order
MembersOf(importList, st) ==
    LET SameKey(x) == Mergeable(x) /\ EntryOf(x) = EntryOf(st)
    IN SelectSeq(importList, SameKey)

\* One output statement per entry, at the position of its first statement
OneStatementPerKey(input, output) ==
    [i \in 1..Len(output) |-> EntryOf(output[i])]
    = AppendNew(<<>>, [i \in 1..Len(input) |-> EntryOf(input[i])])

\* C2: merge invariant: for every key of a mergeable statement the output
\* of mergeImports has exactly one statement, at the position of the first
\* statement of the key, holding the specifiers of the key's statements in
\* statement order with every later duplicate (name, alias) removed.
C2_MergeInvariant ==
    Completed =>
        /\ OneStatementPerKey(call.sortedImports, call.mergedImports)
        /\ \A i \in 1..Len(call.mergedImports) :
              LET m == call.mergedImports[i]
                  members == MembersOf(call.sortedImports, m)
              IN Mergeable(m) =>
                    Specifiers(m)
                    = AppendNew(<<>>,
                        Flatten([k \in 1..Len(members) |->
                                   Specifiers(members[k])]))

-----------------------------------------------------------------------------
(* Properties of the unused-import removal *)

IsExportOrSideEffect(st) == st.isExport \/ st.isSideEffect

\* C4: unused-removal safety: every export-from, export-all and bare
\* side-effect import comes out of removeUnusedImportsFromStatements
\* unchanged and in the same relative position, whatever the used set.
C4_ExportsAndSideEffectsKept ==
    (pc = "done" /\ config.removeUnusedImports /\ call.imports # <<>>) =>
        SelectSeq(call.processedImports, IsExportOrSideEffect)
        = SelectSeq(call.imports, IsExportOrSideEffect)

\* Nothing is used, an import was dropped, and an export-from with a
\* specifier and a side-effect statement are still there
C4_Witness ==
    /\ pc = "done"
    /\ config.removeUnusedImports
    /\ call.imports # <<>>
    /\ analyzeUsedIdentifiers(CodeAfterImports) = {}
    /\ Len(call.processedImports) < Len(call.imports)
    /\ \E i \in 1..Len(call.processedImports) :
          /\ call.processedImports[i].isExport
          /\ call.processedImports[i].importContents # <<>>
    /\ \E i \in 1..Len(call.processedImports) :
          call.processedImports[i].isSideEffect

-----------------------------------------------------------------------------
(* Properties of the scan and the splice *)

\* The statement tokens before the first token of other code
StatementsBeforeCode ==
    LET codeAt == {i \in 1..Len(text) : text[i].k = "code"}
        firstCode == IF codeAt = {} THEN Len(text) + 1
                     ELSE CHOOSE i \in codeAt : \A j \in codeAt : i <= j
    IN Ascending({i \in 1..(firstCode - 1) : text[i].k = "stmt"})

\* C7: only the leading block is touched: parseImports returns exactly the
\* maximal leading run of import / export-from / export-all statements; the
\* result is the input with only the span from the first statement's start
\* to the last statement's end replaced, the text before and after it
\* (later import statements included) carried over unchanged; when the run
\* is empty the result is the input.
C7_OnlyLeadingBlockTouched ==
    (pc = "done" /\ ~BabelThrows(text)) =>
        LET run == StatementsBeforeCode
            n == Len(text)
            m == Len(call.result)
        IN /\ Len(call.imports) = Len(run)
           /\ \A k \in 1..Len(run) :
                 /\ call.imports[k].path = text[run[k]].s.path
                 /\ call.imports[k].start < run[k]
                 /\ call.imports[k].end >= run[k]
                 /\ \A t \in (call.imports[k].start + 1)..call.imports[k].end :
                       t # run[k] => text[t].k \in {"cmt", "nl"}
           /\ run = <<>> => call.result = text
           /\ run # <<>> =>
                 LET startIndex == call.imports[1].start
                     endIndex == call.imports[Len(run)].end
                 IN /\ m >= startIndex + (n - endIndex)
                    /\ SubSeq(call.result, 1, startIndex)
                       = SubSeq(text, 1, startIndex)
                    /\ SubSeq(call.result, m - (n - endIndex) + 1, m)
                       = SubSeq(text, endIndex + 1, n)

\* A block after a header comment and before code with a later import was
\* rewritten
C7_Witness ==
    /\ Completed
    /\ call.result # text
    /\ call.imports[1].start > 0
    /\ \E i \in 1..Len(text) :
          /\ text[i].k = "stmt"
          /\ i > call.imports[Len(call.imports)].end
    /\ call.sortedImports[1].start # call.imports[1].start

-----------------------------------------------------------------------------
(* Properties of the default order and the default classification *)

ShapeOf(path) ==
    CASE path \in {"./a", "./z"} -> "relative"
      [] path = "@/c" -> "alias"
      [] OTHER -> "module"

ShapePriority(path) ==
    CASE ShapeOf(path) = "module" -> 0
      [] ShapeOf(path) = "alias" -> 1
      [] ShapeOf(path) = "relative" -> 2

\* a may stand before b: lower priority, or the same priority and the
\* lower path, or the same path and the earlier position in the input
InDefaultOrder(a, b) ==
    \/ ShapePriority(a.path) < ShapePriority(b.path)
    \/ /\ ShapePriority(a.path) = ShapePriority(b.path)
       /\ CollationIndex(a.path) < CollationIndex(b.path)
    \/ a.path = b.path /\ a.start < b.start

SideEffectsBefore(importList, i) ==
    Cardinality({k \in 1..(i - 1) : importList[k].isSideEffect})

NoCustomOrder ==
    /\ config.getGroup = "undefined"
    /\ config.sortGroup = "undefined"
    /\ config.sortImportStatement = "undefined"

C10_GroupedByPathShape ==
    (Completed /\ config.getGroup = "undefined") =>
        \A g \in 1..Len(call.groups) :
            \A i \in 1..Len(call.groups[g].importStatements) :
                call.groups[g].name
                = ShapeOf(call.groups[g].importStatements[i].path)

\* C10 as amended: when no classify function is configured, groupImports
\* puts every statement of the list it is given in one group named
\* "default", whatever its path.
C10_OneDefaultGroup ==
    (Completed /\ config.getGroup = "undefined") =>
        LET given == call.processedImports
            Sorted(st) == config.sortSideEffect \/ ~st.isSideEffect
            firstOfList ==
                {i \in 1..Len(given) :
                    /\ Sorted(given[i])
                    /\ \/ i = 1
                       \/ ~config.sortSideEffect /\ given[i - 1].isSideEffect}
        IN /\ \A g \in 1..Len(call.groups) : call.groups[g].name = "default"
           /\ Len(call.groups) = Cardinality(firstOfList)
           /\ Flatten([g \in 1..Len(call.groups) |->
                         call.groups[g].importStatements])
              = SelectSeq(given, Sorted)

\* One group holds statements of different path shapes
C10_Witness ==
    /\ Completed
    /\ config.getGroup = "undefined"
    /\ \E g \in 1..Len(call.groups) :
          \E i, j \in 1..Len(call.groups[g].importStatements) :
              ShapeOf(call.groups[g].importStatements[i].path)
              # ShapeOf(call.groups[g].importStatements[j].path)

-----------------------------------------------------------------------------
(* Properties of the order of the specifiers *)

Occurrences(seq, x) == Cardinality({i \in 1..Len(seq) : seq[i] = x})

IsPermutation(a, b) ==
    /\ Len(a) = Len(b)
    /\ \A i \in 1..Len(a) : Occurrences(a, a[i]) = Occurrences(b, a[i])

\* alias ?? name
FinalName(c) == IF c.alias # "" THEN c.alias ELSE c.name

IsNamedSpecifier(c) == c.name # "default" /\ c.name # "*"

\* a may stand before b under the default rules
InDefaultContentOrder(a, b) ==
    \/ a.name = "default" /\ b.name # "default"
    \/ a.name = "default" /\ b.name = "default"
    \/ a.name = "*" /\ b.name = "*"
    \/ a.name = "*" /\ IsNamedSpecifier(b)
    \/ /\ IsNamedSpecifier(a) /\ IsNamedSpecifier(b)
       /\ \/ a.type = "type" /\ b.type # "type"
          \/ /\ a.type = b.type
             /\ CollationIndex(FinalName(a)) <= CollationIndex(FinalName(b))

\* The statement of importList that was parsed at start
StatementAt(importList, start) ==
    importList[CHOOSE i \in 1..Len(importList) : importList[i].start = start]

C12_TypeBeforeValue ==
    (Completed /\ config = DefaultConfig) =>
        \A s \in 1..Len(call.mergedImports) :
            LET contents == call.mergedImports[s].importContents
            IN \A i, j \in 1..Len(contents) :
                  (/\ i < j
                   /\ IsNamedSpecifier(contents[i])
                   /\ IsNamedSpecifier(contents[j]))
                  => ~(contents[i].type # "type" /\ contents[j].type = "type")

-----------------------------------------------------------------------------
(* Properties of the statements mergeImports leaves alone and of the       *)
(* comments of the statements it combines                                  *)

\* C13: statements excluded from merging stay singletons: mergeImports
\* returns each side-effect statement and each statement with a "*"
\* specifier as its own unchanged statement, also when several of them, or a
\* mergeable statement, have the same path and isExport.
C13_SingletonsKept ==
    Completed =>
        LET Excluded(st) == ~Mergeable(st)
        IN SelectSeq(call.mergedImports, Excluded)
           = SelectSeq(call.sortedImports, Excluded)

\* Two excluded statements and a mergeable statement of one path
C13_Witness ==
    /\ Completed
    /\ Len(call.mergedImports) = 3
    /\ \E i, j, k \in 1..3 :
          /\ i < j
          /\ ~Mergeable(call.sortedImports[i])
          /\ ~Mergeable(call.sortedImports[j])
          /\ Mergeable(call.sortedImports[k])
          /\ call.sortedImports[k].importContents # <<>>
          /\ call.sortedImports[i].path = call.sortedImports[k].path
          /\ call.sortedImports[j].path = call.sortedImports[k].path
          /\ call.sortedImports[i].isSideEffect
             = call.sortedImports[j].isSideEffect

\* The comments of a list of statements or specifiers, in order
LeadingOf(list) == Flatten([i \in 1..Len(list) |-> list[i].leadingComments])
TrailingOf(list) == Flatten([i \in 1..Len(list) |-> list[i].trailingComments])

\* The position of the n-th statement in a formatted block
NthStatement(formatted, n) ==
    Ascending({i \in 1..Len(formatted) : formatted[i].k = "stmt"})[n]

\* The comments written on the line of the token at pos, after it
CommentsAfter(formatted, pos) ==
    LET ends == {e \in pos..Len(formatted) :
                   \A t \in (pos + 1)..e : formatted[t].k = "cmt"}
    IN (CHOOSE e \in ends : \A f \in ends : f <= e) - pos

-----------------------------------------------------------------------------
(* Properties of formatImportStatement *)

\* Every comment string a statement record holds
CommentsOfRecord(st) ==
    Range(st.leadingComments) \cup Range(st.trailingComments)
    \cup Range(st.removedTrailingComments)
    \cup UNION {Range(st.importContents[i].leadingComments)
                \cup Range(st.importContents[i].trailingComments)
                   : i \in 1..Len(st.importContents)}

\* Every comment string that occurs in a text
CommentsOfSrc(src) ==
    UNION {Range(src.heads[i].lc) \cup Range(src.heads[i].tc)
              : i \in 1..Len(src.heads)}
    \cup UNION {Range(src.named[i].lc) \cup Range(src.named[i].tc)
                   : i \in 1..Len(src.named)}

CommentsOfText(txt) ==
    {txt[i].c : i \in {j \in 1..Len(txt) : txt[j].k = "cmt"}}
    \cup UNION {CommentsOfSrc(txt[i].s)
                   : i \in {j \in 1..Len(txt) : txt[j].k = "stmt"}}

\* C15: every comment is preserved by formatting: each comment string a
\* statement record holds (of the statement, removed trailing comments, of
\* every specifier, default and namespace included) occurs in the text
\* formatImportStatement returns for it, in either layout.
C15_CommentsPreserved ==
    Completed =>
        \A s \in 1..Len(call.mergedImports) :
            CommentsOfRecord(call.mergedImports[s])
            \subseteq CommentsOfText(formatImportStatement(call.mergedImports[s]))

\* The statement as formatImportStatement writes it
WrittenAs(st) ==
    LET formatted == formatImportStatement(st)
    IN formatted[NthStatement(formatted, 1)].s

NamedOf(st) == SelectSeq(st.importContents, IsNamedSpecifier)

HasDefaultOrNamespace(st) ==
    \E i \in 1..Len(st.importContents) : ~IsNamedSpecifier(st.importContents[i])

AllNamedAreTypes(st) ==
    \A i \in 1..Len(NamedOf(st)) : NamedOf(st)[i].type = "type"

\* C16: whole-clause type promotion: a statement that is not side-effect,
\* has a named specifier, only type specifiers among the named ones and no
\* default or namespace specifier is written `import type { ... }` /
\* `export type { ... }` with no specifier carrying a `type ` prefix, in
\* the single-line and in the one-specifier-per-line layout.
C16_WholeClauseType ==
    Completed =>
        \A s \in 1..Len(call.mergedImports) :
            LET st == call.mergedImports[s]
            IN (/\ ~st.isSideEffect
                /\ NamedOf(st) # <<>>
                /\ AllNamedAreTypes(st)
                /\ ~HasDefaultOrNamespace(st))
               => /\ WrittenAs(st).typeKw
                  /\ \A i \in 1..Len(WrittenAs(st).named) :
                        ~WrittenAs(st).named[i].tp

\* C17: per-item type prefix rule: a named specifier is written with a
\* `type ` prefix only when the named specifiers are a mix of type and value
\* specifiers and a default or namespace specifier is present.
C17_PrefixOnlyWhenMixedWithDefault ==
    Completed =>
        \A s \in 1..Len(call.mergedImports) :
            LET st == call.mergedImports[s]
            IN ~st.isSideEffect =>
                  \A i \in 1..Len(WrittenAs(st).named) :
                      WrittenAs(st).named[i].tp
                      => /\ ~AllNamedAreTypes(st)
                         /\ \E n \in 1..Len(NamedOf(st)) :
                               NamedOf(st)[n].type = "type"
                         /\ HasDefaultOrNamespace(st)

\* C17 as amended: a named specifier is written with a `type ` prefix
\* exactly when it is a type specifier and the statement is not written on
\* one line under the whole-clause `type` keyword.
C17_PrefixOnTypeUnlessPromoted ==
    Completed =>
        \A s \in 1..Len(call.mergedImports) :
            LET st == call.mergedImports[s]
                promoted == AllNamedAreTypes(st) /\ ~HasDefaultOrNamespace(st)
                onOneLine ==
                    \A n \in 1..Len(NamedOf(st)) :
                        /\ NamedOf(st)[n].leadingComments = <<>>
                        /\ NamedOf(st)[n].trailingComments = <<>>
            IN ~st.isSideEffect =>
                  /\ Len(WrittenAs(st).named) = Len(NamedOf(st))
                  /\ \A i \in 1..Len(NamedOf(st)) :
                        /\ WrittenAs(st).named[i].name = NamedOf(st)[i].name
                        /\ WrittenAs(st).named[i].tp
                           <=> (/\ NamedOf(st)[i].type = "type"
                                /\ ~(promoted /\ onOneLine))

\* A type specifier with its prefix beside a value specifier, with no
\* default or namespace import in the statement
C17_Witness ==
    /\ Completed
    /\ \E s \in 1..Len(call.mergedImports) :
          LET st == call.mergedImports[s]
          IN /\ ~st.isSideEffect
             /\ ~HasDefaultOrNamespace(st)
             /\ \E i, j \in 1..Len(WrittenAs(st).named) :
                   /\ WrittenAs(st).named[i].tp
                   /\ ~WrittenAs(st).named[j].tp
                   /\ NamedOf(st)[j].type = "variable"

-----------------------------------------------------------------------------
(* Properties of the separators *)

\* The lines a configured separator resolves to before the group at index
\* (0-based): a blank line and the separator text, or nothing when the
\* separator function returns undefined
SeparatorLines(index) ==
    CASE config.separator = "empty" -> <<(<<>>)>>
      [] config.separator = "comment" -> <<(<<>>), <<Cmt("//sep")>>>>
      [] config.separator = "function" ->
            IF index = 0 THEN <<>> ELSE <<(<<>>), <<NL>>>>
      [] OTHER -> <<>>

\* The groups of the formatted block: those of the classify function, or
\* the one group of all statements when none is configured
FinalGroups ==
    IF config.getGroup # "undefined"
    THEN [g \in 1..Len(call.sortedGroups) |->
            call.sortedGroups[g].importStatements]
    ELSE <<call.mergedImports>>

\* C18: separator emission: whenever a separator is configured, with or
\* without a classify function, the formatted block has before each group a
\* blank line and the resolved separator text, nothing for a group whose
\* separator resolves to undefined, and the statements of a group one after
\* another with no blank line between them.
C18_SeparatorBeforeEachGroup ==
    (Completed /\ config.separator # "undefined") =>
        call.formattedImports
        = joinLines(Flatten([g \in 1..Len(FinalGroups) |->
              SeparatorLines(g - 1)
              \o [n \in 1..Len(FinalGroups[g]) |->
                    formatImportStatement(FinalGroups[g][n])]]))

-----------------------------------------------------------------------------
(* Properties of the usage analysis and the filter *)

\* The reference filter: an import statement keeps the specifiers whose
\* effective local name is used and is omitted when none remains
ReferenceFilter(importList, used) ==
    LET Used(c) == FinalName(c) \in used
        Filtered(st) ==
            IF st.isExport \/ st.isSideEffect THEN st
            ELSE [st EXCEPT !.importContents = SelectSeq(@, Used)]
        Remains(st) ==
            st.isExport \/ st.isSideEffect \/ st.importContents # <<>>
    IN SelectSeq([i \in 1..Len(importList) |-> Filtered(importList[i])],
                 Remains)

\* C19: unused-import filtering equals the reference filter: for a used
\* set U, removeUnusedImportsFromStatements returns, in input order, each
\* import statement with exactly the specifiers whose effective local name
\* (alias ?? name; the alias of a default or namespace specifier) is in U,
\* in their order, and omits a statement no specifier of which remains.
C19_FilterEqualsReference ==
    (pc = "done" /\ config.removeUnusedImports /\ call.imports # <<>>) =>
        call.processedImports
        = ReferenceFilter(call.imports,
                          analyzeUsedIdentifiers(CodeAfterImports))

\* One statement lost two of its four specifiers, another was omitted
C19_Witness ==
    /\ pc = "done"
    /\ config.removeUnusedImports
    /\ Len(call.imports) = 2
    /\ Len(call.processedImports) = 1
    /\ \E i \in 1..2 :
          /\ call.imports[i].start = call.processedImports[1].start
          /\ Len(call.imports[i].importContents) = 4
          /\ Len(call.processedImports[1].importContents) = 2
          /\ call.processedImports[1].importContents[1].name = "default"

\* C20: dotted JSX tags count as usage of their leftmost name: when the
\* code after the imports holds <A.B /> or <A.B.C />, the specifiers
\* imported as A are kept by the removal of unused imports.
C20_DottedTagKeepsImport ==
    (pc = "done" /\ config.removeUnusedImports /\ call.imports # <<>>) =>
        \A t \in 1..Len(CodeAfterImports) :
            LET token == CodeAfterImports[t]
            IN (token.k = "code" /\ "tag" \in DOMAIN token) =>
                  \A i \in 1..Len(call.imports) :
                      \A c \in 1..Len(call.imports[i].importContents) :
                          LET content == call.imports[i].importContents[c]
                          IN FinalName(content) = token.tag[1] =>
                                \E j \in 1..Len(call.processedImports) :
                                    /\ call.processedImports[j].start
                                       = call.imports[i].start
                                    /\ content \in
                                       Range(call.processedImports[j].importContents)

\* A blank line lies between the comments above token i and token i
BlankLineAbove(txt, i) ==
    i > 2 /\ txt[i - 1].k = "nl" /\ txt[i - 2].k = "nl"

\* Statement n of the parsed block owns the comment at token c
OwnsLeading(n, c) ==
    /\ call.imports[n].start <= c - 1
    /\ \E k \in 1..Len(call.imports[n].leadingComments) :
          call.imports[n].leadingComments[k] = text[c].c

\* C21: header-comment rule: a comment above the first statement of the
\* block is left out of the statement exactly when a blank line separates
\* the comment block from the statement, so every comment of a contiguous
\* block directly above it is owned; every later statement owns all the
\* leading comments attached to it.
C21_HeaderRule ==
    Completed =>
        LET run == LeadingRun(text)
        IN /\ \A c \in BabelLeading(text, run[1]) :
                 OwnsLeading(1, c) <=> ~BlankLineAbove(text, run[1])
           /\ \A n \in 2..Len(run) :
                 \A c \in BabelLeading(text, run[n]) :
                    LineOf(text, c) # LineOf(text, run[n - 1])
                        => OwnsLeading(n, c)

\* The written statements of a text
WrittenStatements(txt) ==
    {txt[i].s : i \in {j \in 1..Len(txt) : txt[j].k = "stmt"}}

\* C23: an export specifier named default survives the round trip: every
\* `default as X` or bare `default` of an export-from statement of the input
\* is written between the braces of an export-from statement of the same path
\* in the output, and no export statement of the output is written with a
\* bare default binding before its braces.
C23_ExportDefaultRoundTrip ==
    Completed =>
        /\ \A s \in WrittenStatements(text) :
              \A i \in 1..Len(s.named) :
                 (s.kw = "export" /\ s.named[i].name = "default") =>
                    \E o \in WrittenStatements(call.result) :
                       /\ o.kw = "export" /\ o.path = s.path /\ o.braces
                       /\ \E j \in 1..Len(o.named) :
                             /\ o.named[j].name = "default"
                             /\ o.named[j].alias = s.named[i].alias
        /\ \A o \in WrittenStatements(call.result) :
              o.kw = "export" => o.heads = <<>>

\* The formatted statements of the last call that are not side effects
FormattedClauses ==
    {s \in WrittenStatements(call.formattedImports) : s.form = "clause"}

\* C28: the formatter never emits an empty specifier clause: every statement
\* that is not a side effect, an `export {} from "p"` included, is written
\* with at least one specifier between the keyword and `from`.
C28_NoEmptyClause ==
    Completed =>
        \A s \in FormattedClauses : s.heads # <<>> \/ s.named # <<>>

\* The specifier of (name, alias) that statement st holds first
RetainedSpecifier(st, name, alias) ==
    LET at == {n \in 1..Len(st.importContents) :
                 /\ st.importContents[n].name = name
                 /\ st.importContents[n].alias = alias}
    IN st.importContents[CHOOSE n \in at : \A l \in at : n <= l]

\* Two statements of one key hold (name, alias) as a type and as a value
TypeAndValue(x, y, c) ==
    /\ Mergeable(x) /\ Mergeable(y) /\ EntryOf(x) = EntryOf(y)
    /\ c \in Range(x.importContents) /\ c.type = "type"
    /\ \E d \in Range(y.importContents) :
          d.name = c.name /\ d.alias = c.alias /\ d.type = "variable"

\* C29: merging never loses a value binding: when statements of one key
\* hold the same (name, alias) once as a type and once as a value, in
\* either order, the specifier mergeImports retains has type "variable";
\* and a default or namespace specifier is written under the whole-clause
\* `type` keyword exactly when it was parsed from a type-only declaration.
C29_NoValueBindingLost ==
    Completed =>
        /\ \A x, y \in Range(call.sortedImports) :
              \A c \in Range(x.importContents) :
                 TypeAndValue(x, y, c) =>
                    \A m \in Range(call.mergedImports) :
                       (Mergeable(m) /\ EntryOf(m) = EntryOf(x)) =>
                          RetainedSpecifier(m, c.name, c.alias).type
                              = "variable"
        /\ \A m \in Range(call.mergedImports) :
              \A c \in Range(m.importContents) :
                 (c.name = "default" \/ c.name = "*") =>
                    \A o \in WrittenStatements(formatImportStatement(m)) :
                       o.typeKw <=> c.type = "type"

\* C27: mergeImports leaves its input unchanged: when it has returned, every
\* statement record and every specifier record of the list it was given,
\* comments included, has the field values it had before the call, also
\* when a duplicate specifier carrying comments was merged into an earlier
\* one.
C27_MergeInputUnchanged ==
    Completed => mergeImportsInput(call.sortedImports) = call.sortedImports

\* The first of the values that is set
RECURSIVE FirstSet(_)
FirstSet(values) ==
    IF values = <<>> THEN "undefined"
    ELSE IF Head(values) # "undefined" THEN Head(values)
    ELSE FirstSet(Tail(values))

\* The last transform got as far as its configuration
Transformed == calls > 0 /\ transform.plugin > 0 /\ readsConfig(text)

\* The configuration of the file the options of the last transform name:
\* what loadConfigFromPath returned, or the file on disk when it was not
\* called
FileLevel ==
    IF transform.loaded # "undefined" THEN transform.fileConfig
    ELSE transform.onDisk.config

\* C22: configuration precedence: for every field independently the value
\* a transform uses is the one of the createPlugin argument of its plugin
\* if set there (an explicit false included), otherwise the one of the file
\* named by sortImportsConfigPath, otherwise the host option, otherwise the
\* built-in default.
C22_ConfigPrecedence ==
    Transformed =>
        LET c == plugins[transform.plugin]
            f == FileLevel
            o == transform.options
        IN /\ config.getGroup = FirstSet(<<c.getGroup, f.getGroup, o.getGroup>>)
           /\ config.sortGroup
                = FirstSet(<<c.sortGroup, f.sortGroup, o.sortGroup>>)
           /\ config.sortImportStatement
                = FirstSet(<<c.sortImportStatement, f.sortImportStatement,
                             o.sortImportStatement>>)
           /\ config.sortImportContent
                = FirstSet(<<c.sortImportContent, f.sortImportContent,
                             o.sortImportContent>>)
           /\ config.separator
                = FirstSet(<<c.separator, f.separator,
                             o.importSortSeparator, o.separator>>)
           /\ config.sortSideEffect
                <=> FirstSet(<<c.sortSideEffect, f.sortSideEffect,
                               o.importSortSideEffect, "false">>) = "true"
           /\ config.removeUnusedImports
                <=> FirstSet(<<c.removeUnusedImports, f.removeUnusedImports,
                               o.importSortRemoveUnused, "false">>) = "true"

\* C25: plugin instances do not share configuration: every transform of a
\* plugin, the default export included, works with the configuration that
\* plugin was created with, whatever createPlugin calls came later.
C25_PluginsKeepOwnConfig ==
    Transformed =>
        config = IF build = "first"
                 THEN buildConfig(plugins[transform.plugin],
                                  transform.fileConfig, transform.options)
                 ELSE finalConfig(plugins[transform.plugin],
                                  transform.options)

OthersWithPreprocess ==
    SelectSeq([i \in 1..Len(otherPlugins) |-> i],
              LAMBDA i : otherPlugins[i].parsers[chain.parserName]
                            # "undefined")

\* The last combinedPreprocess call returned and text is what it was given
Chained == pc = "done" /\ chain.done

\* C24: plugin execution order: in a combined preprocess of a plugin created
\* with otherPlugins = [p1..pn] the preprocess functions of p1..pn are
\* called in array order and the import sorting is called last, after all
\* of them.
C24_SortRunsLast ==
    Chained => chain.log = OthersWithPreprocess \o <<0>>

\* What preprocess function f makes of a text
StepResult(f, txt) ==
    IF f = 0 THEN preprocessImports(txt, config).result
    ELSE otherPreprocess(otherPlugins[f].parsers[chain.parserName], txt)

\* The text after the calls k, k + 1, ... of the log, a call that threw
\* leaving the text as it was
RECURSIVE TextAfter(_, _)
TextAfter(k, txt) ==
    IF k > Len(chain.log) THEN txt
    ELSE TextAfter(k + 1, IF k \in chain.failed THEN txt
                          ELSE StepResult(chain.log[k], txt))

\* C30: failure isolation in the preprocess chain: when a preprocess
\* function of a combined preprocess throws, the chain goes on with the text
\* of the last step that succeeded, every other preprocess function is
\* called exactly once in order, and the combined preprocess returns a text
\* without throwing.
C30_ChainFailureIsolation ==
    (Chained /\ chain.failed # {}) =>
        /\ ~chain.threw
        /\ Len(chain.log) = 1 + Len(OthersWithPreprocess)
        /\ \A k \in 1..Len(chain.log) :
              /\ \A l \in 1..Len(chain.log) :
                    chain.log[k] = chain.log[l] => k = l
              /\ \A l \in 1..(k - 1) :
                    chain.log[l] # 0 /\ chain.log[k] # 0
                        => chain.log[l] < chain.log[k]
        /\ chain.result = TextAfter(1, text)

\* A preprocess function threw and a later one put its banner on the text
C30_Witness ==
    /\ Chained
    /\ \E k \in chain.failed :
          \E l \in (k + 1)..Len(chain.log) :
             /\ chain.log[l] # 0
             /\ otherPlugins[chain.log[l]].parsers[chain.parserName]
                   = "banner"
    /\ chain.result # <<>>
    /\ chain.result[1] = Cmt("//banner")

====
